---- MODULE Spec2Model ----
(***************************************************************************)
(* Model of meshmode: the discretization layer                             *)
(* (meshmode/discretization/__init__.py) and the mesh processing           *)
(* algorithms (meshmode/mesh/processing.py).                               *)
(*                                                                         *)
(* Arrays are records [shape, data]: shape is the tuple of dimensions and  *)
(* data the row-major flattening.  A numpy view is the tuple of flat       *)
(* positions of its base array it addresses, so that a write through a     *)
(* view is a write to the base array.                                      *)
(***************************************************************************)
EXTENDS Integers, Sequences, FiniteSets, TLC

VARIABLES
    mesh,            \* Discretization: the mesh handed to __init__
    group_factory,   \* Discretization: the factory handed to __init__
    discr,           \* Discretization: the object (status, groups, nnodes)
    nodes_memo,      \* Discretization: memoize_method's cache of nodes()
    runs,            \* Discretization: how often each array was computed
    ret,             \* Discretization: what the last call returned
    meshes,          \* merge_disjoint_meshes: the list of meshes handed in
    merge_ret,       \* merge_disjoint_meshes: what the call returned
    flip_grp,        \* flip_simplex_element_group: the group handed in
    grp_flip_flags,  \* flip_simplex_element_group: the mask handed in
    numerics,        \* flip_simplex_element_group: the flip matrix's rounding
    flip_ret,        \* flip_simplex_element_group: what the call returned
    reflip_ret,      \* what flipping the returned group again returned
    orient_mesh,     \* find_volume_mesh_element_orientations: the mesh
    tolerate_unimplemented_checks,   \* ... and its flag
    orient_ret,      \* find_volume_mesh_element_orientations: what it returned
    affine_mesh,     \* affine_map: the mesh
    affine_A,        \* ... the matrix A, or None
    affine_b,        \* ... the vector b, or None
    affine_ret,      \* affine_map: what it returned
    launched,        \* per-group kernels run side by side: the operation
    result_buf,      \* ... the shared output buffer
    pending,         \* ... the work groups (group, element) still to run
    accesses,        \* ... who wrote and who read which position
    pflip_mesh,      \* perform_flips: the mesh
    flip_flags,      \* ... the mask over the mesh's elements
    skip_tests,      \* ... whether the new mesh is built without its tests
    pflip_ret        \* perform_flips: what it returned

discr_vars == <<mesh, group_factory, discr, nodes_memo, runs, ret>>

merge_vars == <<meshes, merge_ret>>

flip_vars == <<flip_grp, grp_flip_flags, numerics, flip_ret, reflip_ret>>

orient_vars == <<orient_mesh, tolerate_unimplemented_checks, orient_ret>>

affine_vars == <<affine_mesh, affine_A, affine_b, affine_ret>>

par_vars == <<launched, result_buf, pending, accesses>>

pflip_vars == <<pflip_mesh, flip_flags, skip_tests, pflip_ret>>

vars ==
    <<discr_vars, merge_vars, flip_vars, orient_vars, affine_vars, par_vars,
      pflip_vars>>

\* The variables of the other components, which a component leaves alone.
not_discr_vars == <<merge_vars, flip_vars, orient_vars, affine_vars, par_vars,
      pflip_vars>>

not_merge_vars == <<discr_vars, flip_vars, orient_vars, affine_vars, par_vars,
      pflip_vars>>

not_flip_vars == <<discr_vars, merge_vars, orient_vars, affine_vars, par_vars,
      pflip_vars>>

not_orient_vars == <<discr_vars, merge_vars, flip_vars, affine_vars, par_vars,
      pflip_vars>>

not_affine_vars == <<discr_vars, merge_vars, flip_vars, orient_vars, par_vars,
      pflip_vars>>

not_pflip_vars ==
    <<discr_vars, merge_vars, flip_vars, orient_vars, affine_vars, par_vars>>

not_par_vars == <<discr_vars, merge_vars, flip_vars, orient_vars, affine_vars,
      pflip_vars>>

(***************************************************************************)
(* Bounds of the model.                                                    *)
(***************************************************************************)
MaxGroups == 2

MaxElements == 2

MaxCalls == 2

(***************************************************************************)
(* Generic helpers.                                                        *)
(***************************************************************************)
Min(a, b) == IF a < b THEN a ELSE b

Max(a, b) == IF a > b THEN a ELSE b

RECURSIVE Prod(_)
Prod(s) == IF s = <<>> THEN 1 ELSE Head(s) * Prod(Tail(s))

RECURSIVE SumSeq(_)
SumSeq(s) == IF s = <<>> THEN 0 ELSE Head(s) + SumSeq(Tail(s))

Last(s) == s[Len(s)]

Front(s) == SubSeq(s, 1, Len(s) - 1)

\* The content of a freshly allocated, not yet written array cell.
uninit == 0 - 1000000

(***************************************************************************)
(* Mesh element groups as the discretization sees them.                    *)
(***************************************************************************)
MeshGroupKinds == {"SimplexElementGroup", "MeshElementGroup"}

\* isinstance(obj, cls): SimplexElementGroup is a subclass of MeshElementGroup.
isinstance(kind, cls) == kind = cls \/ cls = "MeshElementGroup"

\* Number of nodes of a simplex of dimension dim and order order.
simplex_nnodes(dim, order) ==
    IF dim = 1 THEN order + 1 ELSE ((order + 1) * (order + 2)) \div 2

\* mesh_el_group.nodes: the physical nodes of a mesh group, of shape
\* (ambient_dim, nelements, nmesh_nodes), as data of the input mesh.
mesh_el_group_nodes(ambient_dim, meg) ==
    LET nmesh == simplex_nnodes(meg.dim, meg.order)
    IN  [d \in 1..ambient_dim |-> [k \in 1..meg.nelements |-> [j \in 1..nmesh |->
            100 * d + 10 * (meg.element_nr_base + k) + j]]]

(***************************************************************************)
(* ElementGroupBase                                                        *)
(***************************************************************************)
ElementGroupBase(mesh_el_group, order, node_nr_base) ==
    [mesh_el_group |-> mesh_el_group, order |-> order,
     node_nr_base |-> node_nr_base]

nelements(grp) == grp.mesh_el_group.nelements

nunit_nodes(grp) == simplex_nnodes(grp.mesh_el_group.dim, grp.order)

nnodes(grp) == nunit_nodes(grp) * nelements(grp)

\* A view that ignores node_nr_base and starts at the array's first node.
view_from_start(grp, global_array) ==
    LET n      == Last(global_array.shape)
        lead   == Front(global_array.shape)
        len    == Min(nnodes(grp), n)
        shape  == lead \o <<nelements(grp), nunit_nodes(grp)>>
    IN  IF Prod(lead) * len # Prod(shape)
        THEN [status |-> "ValueError", shape |-> <<>>,
              n |-> n, lo |-> 0, len |-> 0, size |-> 0]
        ELSE [status |-> "ok", shape |-> shape,
              n |-> n, lo |-> 0, len |-> len, size |-> Prod(lead) * len]

\* global_array[..., node_nr_base:node_nr_base + nnodes].reshape(
\*     global_array.shape[:-1] + (nelements, nunit_nodes))
\* A slice is clipped to the axis; reshape fails when the sizes differ.
view(grp, global_array) ==
    LET n      == Last(global_array.shape)
        lead   == Front(global_array.shape)
        lo     == Min(grp.node_nr_base, n)
        hi     == Min(grp.node_nr_base + nnodes(grp), n)
        len    == Max(hi - lo, 0)
        nrows  == Prod(lead)
        shape  == lead \o <<nelements(grp), nunit_nodes(grp)>>
    IN  IF nrows * len # Prod(shape)
        THEN [status |-> "ValueError", shape |-> <<>>,
              n |-> n, lo |-> 0, len |-> 0, size |-> 0]
        ELSE [status |-> "ok", shape |-> shape,
              n |-> n, lo |-> lo, len |-> len, size |-> nrows * len]

(***************************************************************************)
(* OrderBasedGroupFactory                                                  *)
(***************************************************************************)
\* A factory that takes a mesh group of any class.
OrderBasedGroupFactory_call_unchecked(factory, mesh_el_group, node_nr_base) ==
    [status |-> "ok",
     group |-> ElementGroupBase(mesh_el_group, factory.order, node_nr_base)]

OrderBasedGroupFactory_call(factory, mesh_el_group, node_nr_base) ==
    IF ~isinstance(mesh_el_group.kind, factory.mesh_group_class)
    THEN [status |-> "TypeError", group |-> <<>>]
    ELSE [status |-> "ok",
          group |-> ElementGroupBase(mesh_el_group, factory.order, node_nr_base)]

(***************************************************************************)
(* Discretization.__init__                                                 *)
(***************************************************************************)
\* The loop with the running sum advanced by the element count instead of
\* the node count.
RECURSIVE Discretization_init_loop_by_elements(_, _, _, _)
Discretization_init_loop_by_elements(mgs, factory, groups, nn) ==
    IF mgs = <<>>
    THEN [status |-> "ok", groups |-> groups, nnodes |-> nn]
    ELSE LET r == OrderBasedGroupFactory_call(factory, Head(mgs), nn)
         IN  IF r.status # "ok"
             THEN [status |-> r.status, groups |-> <<>>, nnodes |-> 0,
                   accepted |-> Len(groups)]
             ELSE Discretization_init_loop_by_elements(Tail(mgs), factory,
                      Append(groups, r.group), nn + nelements(r.group))

\* The loop; where the factory raises, accepted is the number of groups it
\* had returned before.
RECURSIVE Discretization_init_loop(_, _, _, _)
Discretization_init_loop(mgs, factory, groups, nn) ==
    IF mgs = <<>>
    THEN [status |-> "ok", groups |-> groups, nnodes |-> nn]
    ELSE LET r == OrderBasedGroupFactory_call(factory, Head(mgs), nn)
         IN  IF r.status # "ok"
             THEN [status |-> r.status, groups |-> <<>>, nnodes |-> 0,
                   accepted |-> Len(groups)]
             ELSE Discretization_init_loop(Tail(mgs), factory,
                      Append(groups, r.group), nn + nnodes(r.group))

Discretization_init(m, factory) ==
    Discretization_init_loop(m.groups, factory, <<>>, 0)

(***************************************************************************)
(* What the group classes take from the basis library: per-node quadrature *)
(* weights, per-axis differentiation matrices and the resampling matrix    *)
(* from the mesh group's nodes to the discretization group's nodes.        *)
(***************************************************************************)
weights(grp) == [i \in 1..nunit_nodes(grp) |-> 10 * grp.order + i]

diff_matrices(grp) ==
    [axis \in 1..grp.mesh_el_group.dim |->
        [i \in 1..nunit_nodes(grp) |-> [j \in 1..nunit_nodes(grp) |->
            ((i + axis * j) % 3) - 1]]]

resampling_matrix(grp) ==
    LET nmesh == simplex_nnodes(grp.mesh_el_group.dim, grp.mesh_el_group.order)
    IN  [i \in 1..nunit_nodes(grp) |-> [j \in 1..nmesh |->
            IF j = ((i - 1) % nmesh) + 1 THEN 2
            ELSE IF j = (i % nmesh) + 1 THEN 0 - 1 ELSE 0]]

\* np.dot(a, b) of two square matrices
np_dot(a, b) ==
    [i \in 1..Len(a) |-> [j \in 1..Len(a) |->
        SumSeq([k \in 1..Len(a) |-> a[i][k] * b[k][j]])]]

(***************************************************************************)
(* Arrays and writes through views.                                        *)
(***************************************************************************)
NoArray == [shape |-> <<>>, data |-> <<>>]

\* The flat position (from 1) of the base array that cell q (from 1, in the
\* view's row-major order) of a view addresses.
view_index(v, q) == ((q - 1) \div v.len) * v.n + v.lo + ((q - 1) % v.len) + 1

\* Whether the view addresses flat position p of its base array, and as
\* which of its cells.
in_view(v, p) ==
    v.size > 0 /\ v.lo <= (p - 1) % v.n /\ (p - 1) % v.n < v.lo + v.len

view_cell(v, p) == ((p - 1) \div v.n) * v.len + ((p - 1) % v.n) - v.lo + 1

\* The values a view addresses, in the view's row-major order.
read_view(arr, v) == [q \in 1..v.size |-> arr.data[view_index(v, q)]]

\* arr after values (in the view's row-major order) were written through v.
write_view(arr, v, values) ==
    [arr EXCEPT !.data = [p \in 1..Len(arr.data) |->
        IF in_view(v, p) THEN values[view_cell(v, p)] ELSE arr.data[p]]]

\* Discretization.empty
empty(d, extra_dims) ==
    LET shape == extra_dims \o <<d.nnodes>>
    IN  [shape |-> shape, data |-> [p \in 1..Prod(shape) |-> uninit]]

(***************************************************************************)
(* The three kernels, as the values they write through the view of the     *)
(* result they are handed (in the view's row-major order).                 *)
(***************************************************************************)
\* "result[k,i] = weights[i]"
knl_quad_weights(grp, w) ==
    [q \in 1..nnodes(grp) |-> w[((q - 1) % nunit_nodes(grp)) + 1]]

\* "result[d, k, i] = sum(j, resampling_mat[i, j] * nodes[d, k, j])"
knl_nodes(grp, dims, resampling_mat, meg_nodes) ==
    [q \in 1..(dims * nnodes(grp)) |->
        LET d == ((q - 1) \div nnodes(grp)) + 1
            k == (((q - 1) % nnodes(grp)) \div nunit_nodes(grp)) + 1
            i == ((q - 1) % nunit_nodes(grp)) + 1
        IN  SumSeq([j \in 1..Len(resampling_mat[i]) |->
                       resampling_mat[i][j] * meg_nodes[d][k][j]])]

\* "result[k,i] = sum(j, diff_mat[i, j] * vec[k, j])", vec given as the
\* values its view addresses
knl_diff(grp, diff_mat, vec_values) ==
    [q \in 1..nnodes(grp) |->
        LET k == ((q - 1) \div nunit_nodes(grp)) + 1
            i == ((q - 1) % nunit_nodes(grp)) + 1
        IN  SumSeq([j \in 1..nunit_nodes(grp) |->
                       diff_mat[i][j] * vec_values[(k - 1) * nunit_nodes(grp) + j]])]

(***************************************************************************)
(* Discretization.quad_weights: not memoized (only its kernel is).         *)
(***************************************************************************)
RECURSIVE quad_weights_loop(_, _)
quad_weights_loop(groups, result) ==
    IF groups = <<>> THEN result
    ELSE LET grp == Head(groups)
         IN  quad_weights_loop(Tail(groups),
                 write_view(result, view(grp, result),
                            knl_quad_weights(grp, weights(grp))))

quad_weights(d) == quad_weights_loop(d.groups, empty(d, <<>>))

(***************************************************************************)
(* Discretization.nodes, the body under @memoize_method                    *)
(***************************************************************************)
RECURSIVE nodes_loop(_, _, _)
nodes_loop(groups, ambient_dim, result) ==
    IF groups = <<>> THEN result
    ELSE LET grp == Head(groups)
             meg == grp.mesh_el_group
         IN  nodes_loop(Tail(groups), ambient_dim,
                 write_view(result, view(grp, result),
                     knl_nodes(grp, ambient_dim, resampling_matrix(grp),
                               mesh_el_group_nodes(ambient_dim, meg))))

nodes(d, m) ==
    nodes_loop(d.groups, m.ambient_dim, empty(d, <<m.ambient_dim>>))

(***************************************************************************)
(* Discretization.num_reference_derivative                                 *)
(***************************************************************************)
\* The inner loop over ref_axes: the composed matrix, None for no axis, or
\* the IndexError of diff_matrices()[ref_axis].
RECURSIVE compose_diff_matrices(_, _, _)
compose_diff_matrices(grp, ref_axes, mat) ==
    IF ref_axes = <<>> THEN [status |-> "ok", mat |-> mat]
    ELSE IF Head(ref_axes) + 1 > Len(diff_matrices(grp))
         THEN [status |-> "IndexError", mat |-> <<>>]
         ELSE LET next_mat == diff_matrices(grp)[Head(ref_axes) + 1]
              IN  compose_diff_matrices(grp, Tail(ref_axes),
                      IF mat = <<>> THEN next_mat ELSE np_dot(next_mat, mat))

\* The loop over the groups.  The kernel takes a matrix and arrays of two
\* axes: no matrix (None), or a view of another rank, is refused.
RECURSIVE num_reference_derivative_loop(_, _, _, _)
num_reference_derivative_loop(groups, ref_axes, vec, result) ==
    IF groups = <<>> THEN [status |-> "ok", result |-> result]
    ELSE LET grp  == Head(groups)
             c    == compose_diff_matrices(grp, ref_axes, <<>>)
             rv   == view(grp, result)
             vv   == view(grp, vec)
         IN  IF c.status # "ok" THEN [status |-> c.status, result |-> NoArray]
             ELSE IF vv.status # "ok"
                  THEN [status |-> vv.status, result |-> NoArray]
             ELSE IF c.mat = <<>> \/ Len(vv.shape) # 2
                  THEN [status |-> "KernelArgumentError", result |-> NoArray]
             ELSE num_reference_derivative_loop(Tail(groups), ref_axes, vec,
                      write_view(result, rv,
                                 knl_diff(grp, c.mat, read_view(vec, vv))))

num_reference_derivative(d, ref_axes, vec) ==
    num_reference_derivative_loop(d.groups, ref_axes, vec, empty(d, <<>>))

(***************************************************************************)
(* Meshes (meshmode.mesh).  vertices has shape (ambient_dim, nvertices); a  *)
(* group's vertex_indices has shape (nelements, vertices per element) and  *)
(* holds 0-based indices into vertices; its nodes have shape (ambient_dim, *)
(* nelements, nodes per element) and its unit_nodes (dim, nodes per         *)
(* element).                                                               *)
(***************************************************************************)
NoMesh == [vertices |-> <<>>, groups |-> <<>>]

ambient_dim_of(m) == Len(m.vertices)

\* mesh.vertices.shape[-1]
nvertices_of(m) == Len(m.vertices[1])

\* Mesh(vertices, groups): the groups, numbered contiguously in group order.
RECURSIVE join_mesh(_, _)
join_mesh(groups, element_nr_base) ==
    IF groups = <<>> THEN <<>>
    ELSE <<[Head(groups) EXCEPT !.element_nr_base = element_nr_base]>>
         \o join_mesh(Tail(groups),
                      element_nr_base + Len(Head(groups).vertex_indices))

Mesh(vertices, groups) ==
    [vertices |-> vertices, groups |-> join_mesh(groups, 0)]

\* group.copy(vertex_indices=...): a new group, that one field replaced.
copy_vertex_indices(group, new_vertex_indices) ==
    [group EXCEPT !.vertex_indices = new_vertex_indices]

(***************************************************************************)
(* merge_disjoint_meshes                                                   *)
(***************************************************************************)
\* pytools.is_single_valued(mesh.ambient_dim for mesh in meshes)
is_single_valued(ms) ==
    \A i \in 1..Len(ms) : ambient_dim_of(ms[i]) = ambient_dim_of(ms[1])

\* The loop with every mesh's vertices written at the start of the array.
RECURSIVE merge_assemble_vertices_at_start(_, _, _, _)
merge_assemble_vertices_at_start(ms, vertices, current_vert_base, vert_bases) ==
    IF ms = <<>> THEN [vertices |-> vertices, vert_bases |-> vert_bases]
    ELSE LET m == Head(ms)
             mesh_nvert == nvertices_of(m)
             written ==
                 [d \in 1..Len(vertices) |-> [v \in 1..Len(vertices[d]) |->
                     IF v <= mesh_nvert THEN m.vertices[d][v] ELSE vertices[d][v]]]
         IN  merge_assemble_vertices_at_start(Tail(ms), written,
                 current_vert_base + mesh_nvert,
                 Append(vert_bases, current_vert_base))

\* The loop assembling the combined vertex array and the meshes' bases.
RECURSIVE merge_assemble_vertices(_, _, _, _)
merge_assemble_vertices(ms, vertices, current_vert_base, vert_bases) ==
    IF ms = <<>> THEN [vertices |-> vertices, vert_bases |-> vert_bases]
    ELSE LET m == Head(ms)
             mesh_nvert == nvertices_of(m)
             written ==
                 [d \in 1..Len(vertices) |-> [v \in 1..Len(vertices[d]) |->
                     IF current_vert_base < v /\ v <= current_vert_base + mesh_nvert
                     THEN m.vertices[d][v - current_vert_base]
                     ELSE vertices[d][v]]]
         IN  merge_assemble_vertices(Tail(ms), written,
                 current_vert_base + mesh_nvert,
                 Append(vert_bases, current_vert_base))

\* The loops with the groups copied without the shift of their indices.
RECURSIVE merge_new_groups_unshifted(_, _)
merge_new_groups_unshifted(ms, vert_bases) ==
    IF ms = <<>> THEN <<>>
    ELSE [g \in 1..Len(Head(ms).groups) |->
             copy_vertex_indices(Head(ms).groups[g],
                                 Head(ms).groups[g].vertex_indices)]
         \o merge_new_groups_unshifted(Tail(ms), Tail(vert_bases))

\* The loops assembling the new groups list.
RECURSIVE merge_new_groups(_, _)
merge_new_groups(ms, vert_bases) ==
    IF ms = <<>> THEN <<>>
    ELSE [g \in 1..Len(Head(ms).groups) |->
             LET group == Head(ms).groups[g]
                 new_vertex_indices ==
                     [e \in 1..Len(group.vertex_indices) |->
                         [j \in 1..Len(group.vertex_indices[e]) |->
                             group.vertex_indices[e][j] + Head(vert_bases)]]
             IN  copy_vertex_indices(group, new_vertex_indices)]
         \o merge_new_groups(Tail(ms), Tail(vert_bases))

\* The call with the ambient dimensions compared after the vertex array was
\* allocated.
merge_disjoint_meshes_late_check(ms) ==
    IF ms = <<>>
    THEN [status |-> "ValueError", mesh |-> NoMesh, events |-> <<>>,
          inputs_after |-> ms]
    ELSE IF ~is_single_valued(ms)
    THEN [status |-> "ValueError", mesh |-> NoMesh, events |-> <<"np.empty">>,
          inputs_after |-> ms]
    ELSE LET a == merge_assemble_vertices(ms,
                      [d \in 1..ambient_dim_of(ms[1]) |->
                          [v \in 1..SumSeq([i \in 1..Len(ms) |-> nvertices_of(ms[i])])
                              |-> uninit]], 0, <<>>)
             new_groups == merge_new_groups(ms, a.vert_bases)
         IN  [status |-> "ok",
              mesh |-> Mesh(a.vertices, new_groups),
              events |-> <<"np.empty">>
                         \o [g \in 1..Len(new_groups) |-> "group.copy"]
                         \o <<"Mesh">>,
              inputs_after |-> ms]

\* events: the allocation, the group copies and the Mesh construction the
\* call made, in order.  inputs_after: the meshes as the call leaves them.
merge_disjoint_meshes(ms) ==
    IF ms = <<>>
    THEN [status |-> "ValueError", mesh |-> NoMesh, events |-> <<>>,
          inputs_after |-> ms]
    ELSE IF ~is_single_valued(ms)
    THEN [status |-> "ValueError", mesh |-> NoMesh, events |-> <<>>,
          inputs_after |-> ms]
    ELSE LET ambient_dim == ambient_dim_of(ms[1])
             nvertices == SumSeq([i \in 1..Len(ms) |-> nvertices_of(ms[i])])
             vertices == [d \in 1..ambient_dim |-> [v \in 1..nvertices |-> uninit]]
             a == merge_assemble_vertices(ms, vertices, 0, <<>>)
             new_groups == merge_new_groups(ms, a.vert_bases)
         IN  [status |-> "ok",
              mesh |-> Mesh(a.vertices, new_groups),
              events |-> <<"np.empty">>
                         \o [g \in 1..Len(new_groups) |-> "group.copy"]
                         \o <<"Mesh">>,
              inputs_after |-> ms]

(***************************************************************************)
(* flip_simplex_element_group, for groups of order 1 in one and two        *)
(* dimensions.  Coordinates are integers; the basis library's resampling   *)
(* matrix is the exact interpolation matrix, or, where its floating point  *)
(* computation lost more than the tolerance, a matrix off by an error.     *)
(***************************************************************************)
\* The value of an absent attribute (None).
None == 0 - 1

\* SimplexElementGroup(order, vertex_indices, nodes, unit_nodes=unit_nodes)
SimplexElementGroup(order, vertex_indices, nodes_, unit_nodes) ==
    [kind |-> "SimplexElementGroup", dim |-> Len(unit_nodes), order |-> order,
     vertex_indices |-> vertex_indices, nodes |-> nodes_,
     unit_nodes |-> unit_nodes, element_nr_base |-> None]

\* modepy.tools.unit_to_barycentric, every barycentric coordinate doubled:
\* the last dims rows are (unit + 1)/2, the first is 1 minus their sum.
unit_to_barycentric(unit) ==
    [b \in 1..(Len(unit) + 1) |-> [n \in 1..Len(unit[1]) |->
        IF b = 1
        THEN 2 - SumSeq([d \in 1..Len(unit) |-> unit[d][n] + 1])
        ELSE unit[b - 1][n] + 1]]

\* modepy.tools.barycentric_to_unit of doubled coordinates: -1 + 2*bary[1:]
barycentric_to_unit(bary) ==
    [d \in 1..(Len(bary) - 1) |-> [n \in 1..Len(bary[1]) |-> bary[d + 1][n] - 1]]

\* Twice the signed area of the triangle a, b, c.
orient2d(a, b, c) ==
    (b[1] - a[1]) * (c[2] - a[2]) - (b[2] - a[2]) * (c[1] - a[1])

\* The point number n of a (dim, npoints) array of points.
point(pts, n) == [d \in 1..Len(pts) |-> pts[d][n]]

\* Numerator and denominator of the value at x of the affine function that
\* is 1 at node j of old_nodes and 0 at its other nodes.
lagrange_num(old_nodes, j, x) ==
    LET np_ == Len(old_nodes[1])
        o(k) == point(old_nodes, ((j + k - 1) % np_) + 1)
    IN  IF Len(old_nodes) = 1 THEN x[1] - o(1)[1]
        ELSE orient2d(x, o(1), o(2))

lagrange_den(old_nodes, j) == lagrange_num(old_nodes, j, point(old_nodes, j))

\* mp.resampling_matrix(mp.simplex_onb(dim, 1), new_nodes, old_nodes): row i
\* gives the value at new node i from the values at the old nodes.  Nodes
\* that do not determine an affine function make the solve fail.
resampling_matrix_exact(new_nodes_, old_nodes) ==
    LET np_ == Len(old_nodes[1])
    IN  IF \E j \in 1..np_ : lagrange_den(old_nodes, j) = 0
        THEN [status |-> "LinAlgError", mat |-> <<>>]
        ELSE [status |-> "ok",
              mat |-> [i \in 1..np_ |-> [j \in 1..np_ |->
                         lagrange_num(old_nodes, j, point(new_nodes_, i))
                             \div lagrange_den(old_nodes, j)]]]

\* The matrix as computed in floating point.
mp_resampling_matrix(new_nodes_, old_nodes) ==
    LET r == resampling_matrix_exact(new_nodes_, old_nodes)
    IN  IF r.status = "ok" /\ numerics = "inexact"
        THEN [r EXCEPT !.mat[1][1] = @ + 1]
        ELSE r

identity(n) == [i \in 1..n |-> [j \in 1..n |-> IF i = j THEN 1 ELSE 0]]

\* np.einsum("ij,dej->dei", flip_matrix, nodes) for the flagged elements
apply_flip_matrix(flip_matrix, nodes_, flags) ==
    [d \in 1..Len(nodes_) |-> [e \in 1..Len(nodes_[d]) |->
        IF flags[e]
        THEN [i \in 1..Len(flip_matrix) |->
                 SumSeq([j \in 1..Len(flip_matrix) |->
                            flip_matrix[i][j] * nodes_[d][e][j]])]
        ELSE nodes_[d][e]]]

\* new_vertex_indices: a copy of the group's, columns 0 and 1 of the flagged
\* elements assigned from the group's columns 1 and 0.
swap_first_two(vertex_indices, flags) ==
    [e \in 1..Len(vertex_indices) |->
        IF flags[e]
        THEN [c \in 1..Len(vertex_indices[e]) |->
                 IF c = 1 THEN vertex_indices[e][2]
                 ELSE IF c = 2 THEN vertex_indices[e][1]
                 ELSE vertex_indices[e][c]]
        ELSE vertex_indices[e]]

\* The flip with new_vertex_indices not a copy but the group's own array: the
\* second assignment reads column 0 after the first one wrote it.
flip_simplex_element_group_no_copy(vertices, g, flags) ==
    IF ~isinstance(g.kind, "SimplexElementGroup")
    THEN [status |-> "NotImplementedError", group |-> <<>>, inputs_after |-> g]
    ELSE LET new_vertex_indices ==
                 [e \in 1..Len(g.vertex_indices) |->
                     IF flags[e]
                     THEN [c \in 1..Len(g.vertex_indices[e]) |->
                              IF c = 1 THEN g.vertex_indices[e][2]
                              ELSE g.vertex_indices[e][c]]
                     ELSE g.vertex_indices[e]]
             fm == mp_resampling_matrix(
                       barycentric_to_unit(
                           LET b == unit_to_barycentric(g.unit_nodes)
                           IN  [k \in 1..Len(b) |->
                                   IF k = 1 THEN b[2] ELSE IF k = 2 THEN b[1] ELSE b[k]]),
                       g.unit_nodes)
             after == [g EXCEPT !.vertex_indices = new_vertex_indices]
         IN  IF fm.status # "ok"
             THEN [status |-> fm.status, group |-> <<>>, inputs_after |-> after]
             ELSE IF np_dot(fm.mat, fm.mat) # identity(Len(fm.mat))
             THEN [status |-> "AssertionError", group |-> <<>>,
                   inputs_after |-> after]
             ELSE [status |-> "ok",
                   group |-> SimplexElementGroup(g.order, new_vertex_indices,
                                 apply_flip_matrix(fm.mat, g.nodes, flags),
                                 g.unit_nodes),
                   inputs_after |-> after]

\* The flip without the assertion that the flip matrix is an involution.
flip_simplex_element_group_unasserted(vertices, g, flags) ==
    IF ~isinstance(g.kind, "SimplexElementGroup")
    THEN [status |-> "NotImplementedError", group |-> <<>>, inputs_after |-> g]
    ELSE LET fm == mp_resampling_matrix(
                       barycentric_to_unit(
                           LET b == unit_to_barycentric(g.unit_nodes)
                           IN  [k \in 1..Len(b) |->
                                   IF k = 1 THEN b[2] ELSE IF k = 2 THEN b[1] ELSE b[k]]),
                       g.unit_nodes)
         IN  IF fm.status # "ok"
             THEN [status |-> fm.status, group |-> <<>>, inputs_after |-> g]
             ELSE [status |-> "ok",
                   group |-> SimplexElementGroup(g.order,
                                 swap_first_two(g.vertex_indices, flags),
                                 apply_flip_matrix(fm.mat, g.nodes, flags),
                                 g.unit_nodes),
                   inputs_after |-> g]

\* group: the group returned.  inputs_after: the group handed in, as the call
\* leaves it.
flip_simplex_element_group(vertices, g, flags) ==
    IF ~isinstance(g.kind, "SimplexElementGroup")
    THEN [status |-> "NotImplementedError", group |-> <<>>, inputs_after |-> g]
    ELSE LET new_vertex_indices == swap_first_two(g.vertex_indices, flags)
             bary_unit_nodes == unit_to_barycentric(g.unit_nodes)
             flipped_bary_unit_nodes ==
                 [b \in 1..Len(bary_unit_nodes) |->
                     IF b = 1 THEN bary_unit_nodes[2]
                     ELSE IF b = 2 THEN bary_unit_nodes[1]
                     ELSE bary_unit_nodes[b]]
             flipped_unit_nodes == barycentric_to_unit(flipped_bary_unit_nodes)
             fm == mp_resampling_matrix(flipped_unit_nodes, g.unit_nodes)
         IN  IF fm.status # "ok"
             THEN [status |-> fm.status, group |-> <<>>, inputs_after |-> g]
             ELSE IF np_dot(fm.mat, fm.mat) # identity(Len(fm.mat))
             THEN [status |-> "AssertionError", group |-> <<>>, inputs_after |-> g]
             ELSE [status |-> "ok",
                   group |-> SimplexElementGroup(g.order, new_vertex_indices,
                                 apply_flip_matrix(fm.mat, g.nodes, flags),
                                 g.unit_nodes),
                   inputs_after |-> g]

(***************************************************************************)
(* Element orientations, for meshes in the plane.                          *)
(***************************************************************************)
\* float("nan")
nan == 0 - 2000000

\* np.isnan(a).any()
any_isnan(a) == \E i \in 1..Len(a) : a[i] = nan

\* mesh.nelements
mesh_nelements(m) ==
    SumSeq([g \in 1..Len(m.groups) |-> Len(m.groups[g].vertex_indices)])

\* The signed area element of one element from its vertices: the spanning
\* vectors from the first vertex to the second and to the third, and the
\* scalar (outer_prod.I | outer_prod) of outer_prod = -(v1 ^ v2), which in
\* the plane is v1[0]*v2[1] - v1[1]*v2[0].  A nan coordinate gives nan.
signed_area_element(vertices, element_vertex_indices) ==
    LET v(c, d) == vertices[d][element_vertex_indices[c] + 1]
        span(c, d) == v(c, d) - v(1, d)
    IN  IF \E c \in 1..3, d \in 1..2 : v(c, d) = nan THEN nan
        ELSE span(2, 1) * span(3, 2) - span(2, 2) * span(3, 1)

find_volume_mesh_element_group_orientation(m, g) ==
    IF ~isinstance(g.kind, "SimplexElementGroup")
    THEN [status |-> "NotImplementedError", value |-> <<>>]
    ELSE [status |-> "ok",
          value |-> [e \in 1..Len(g.vertex_indices) |->
                        signed_area_element(m.vertices, g.vertex_indices[e])]]

\* An assignment that ignores element_nr_base and writes from the start of
\* the result.
assign_window_at_start(result, g, values, scalar) ==
    LET hi == Min(Len(g.vertex_indices), Len(result))
    IN  [status |-> "ok",
         result |-> [p \in 1..Len(result) |->
                       IF p <= hi
                       THEN IF scalar THEN values ELSE values[p]
                       ELSE result[p]]]

\* result[element_nr_base:element_nr_base + nelements][:] = values, where
\* values is an array or one number; a slice is clipped to the array.
assign_window(result, g, values, scalar) ==
    LET lo == Min(g.element_nr_base, Len(result))
        hi == Min(g.element_nr_base + Len(g.vertex_indices), Len(result))
    IN  IF ~scalar /\ Max(hi - lo, 0) # Len(values)
        THEN [status |-> "ValueError", result |-> result]
        ELSE [status |-> "ok",
              result |-> [p \in 1..Len(result) |->
                            IF lo < p /\ p <= hi
                            THEN IF scalar THEN values ELSE values[p - lo]
                            ELSE result[p]]]

\* The loop over mesh.groups.  visited: the groups whose window was written,
\* in the order of the writes.
RECURSIVE find_orientations_loop(_, _, _, _, _)
find_orientations_loop(m, i, tolerate, result, visited) ==
    IF i > Len(m.groups)
    THEN [status |-> "ok", result |-> result, visited |-> visited]
    ELSE LET g == m.groups[i]
             o == find_volume_mesh_element_group_orientation(m, g)
             failed(status) ==
                 [status |-> status, result |-> <<>>, visited |-> visited]
         IN  IF tolerate /\ o.status = "NotImplementedError"
             THEN find_orientations_loop(m, i + 1, tolerate,
                      assign_window(result, g, nan, TRUE).result,
                      Append(visited, i))
             ELSE IF o.status # "ok" THEN failed(o.status)
             ELSE IF any_isnan(o.value) THEN failed("AssertionError")
             ELSE LET w == assign_window(result, g, o.value, FALSE)
                  IN  IF w.status # "ok" THEN failed(w.status)
                      ELSE find_orientations_loop(m, i + 1, tolerate,
                               w.result, Append(visited, i))

find_volume_mesh_element_orientations(m, tolerate) ==
    find_orientations_loop(m, 1, tolerate,
        [p \in 1..mesh_nelements(m) |-> uninit], <<>>)

(***************************************************************************)
(* affine_map.  A is a sequence of rows, b a sequence, and either may be   *)
(* left at None.  Arrays of different shapes are added by broadcasting: an *)
(* axis of length one stretches to the other's length, other lengths must  *)
(* agree.                                                                  *)
(***************************************************************************)
\* An array argument left at its default, None.
NoArg == <<>>

\* mesh.connectivity_init_arg()
connectivity_init_arg(m) == m.element_connectivity

\* np.eye(n)
np_eye(n) == [i \in 1..n |-> [j \in 1..n |-> IF i = j THEN 1 ELSE 0]]

\* np.zeros(n)
np_zeros(n) == [i \in 1..n |-> 0]

\* The length of the first axis of x + b[:, np.newaxis, ...], x of nrows rows;
\* None where the shapes do not broadcast.
broadcast_rows(nrows, b) ==
    IF nrows = Len(b) \/ Len(b) = 1 THEN nrows
    ELSE IF nrows = 1 THEN Len(b)
    ELSE None

\* Row i of the broadcast of an array of n rows.
broadcast_index(n, i) == IF n = 1 THEN 1 ELSE i

\* np.einsum("ij,jv->iv", A, vertices) + b[:, np.newaxis]
affine_vertices(A, b, vertices) ==
    LET Ax == [i \in 1..Len(A) |-> [v \in 1..Len(vertices[1]) |->
                  SumSeq([j \in 1..Len(vertices) |-> A[i][j] * vertices[j][v]])]]
    IN  [i \in 1..broadcast_rows(Len(A), b) |-> [v \in 1..Len(vertices[1]) |->
            Ax[broadcast_index(Len(A), i)][v] + b[broadcast_index(Len(b), i)]]]

\* np.einsum("ij,jen->ien", A, group.nodes) + b[:, np.newaxis, np.newaxis]
affine_nodes(A, b, nodes_) ==
    LET Ax == [i \in 1..Len(A) |-> [e \in 1..Len(nodes_[1]) |->
                  [n \in 1..Len(nodes_[1][e]) |->
                      SumSeq([j \in 1..Len(nodes_) |-> A[i][j] * nodes_[j][e][n]])]]]
    IN  [i \in 1..broadcast_rows(Len(A), b) |-> [e \in 1..Len(nodes_[1]) |->
            [n \in 1..Len(nodes_[1][e]) |->
                Ax[broadcast_index(Len(A), i)][e][n]
                    + b[broadcast_index(Len(b), i)]]]]

\* group.copy(nodes=...): a new group, that one field replaced.
copy_nodes(group, nodes_) == [group EXCEPT !.nodes = nodes_]

\* A variant whose group copies are of the first group.
affine_new_groups_of_first(m, A, b) ==
    [g \in 1..Len(m.groups) |->
        copy_nodes(m.groups[1], affine_nodes(A, b, m.groups[1].nodes))]

\* The loop over mesh.groups.
affine_new_groups(m, A, b) ==
    [g \in 1..Len(m.groups) |->
        copy_nodes(m.groups[g], affine_nodes(A, b, m.groups[g].nodes))]

\* mesh: the Mesh returned, with the skip_tests and element_connectivity it
\* was built with.  inputs_after: the input mesh as the call leaves it.
affine_map(m, A_arg, b_arg) ==
    LET A == IF A_arg = NoArg THEN np_eye(ambient_dim_of(m)) ELSE A_arg
        b == IF b_arg = NoArg THEN np_zeros(Len(A)) ELSE b_arg
        failed == [status |-> "ValueError", mesh |-> NoMesh, inputs_after |-> m]
    IN  IF Len(A[1]) # ambient_dim_of(m) THEN failed
        ELSE IF broadcast_rows(Len(A), b) = None THEN failed
        ELSE LET new_groups == affine_new_groups(m, A, b)
                 built == Mesh(affine_vertices(A, b, m.vertices), new_groups)
             IN  [status |-> "ok",
                  mesh |-> [vertices |-> built.vertices,
                            groups |-> built.groups,
                            skip_tests |-> TRUE,
                            element_connectivity |-> connectivity_init_arg(m)],
                  inputs_after |-> m]

(***************************************************************************)
(* perform_flips, and the test of orientations a Mesh runs on itself when  *)
(* it is built with its tests.                                             *)
(***************************************************************************)
\* (area_elements[valid] > 0).all(), valid the entries that are not nan
test_volume_mesh_element_orientations(m) ==
    LET area_elements == find_volume_mesh_element_orientations(m, TRUE)
    IN  IF area_elements.status # "ok"
        THEN [status |-> area_elements.status, value |-> FALSE]
        ELSE [status |-> "ok",
              value |-> \A p \in 1..Len(area_elements.result) :
                           area_elements.result[p] # nan
                               => area_elements.result[p] > 0]

\* Mesh(vertices, groups, skip_tests=skip): unless skipped, the elements of
\* a mesh of the dimension of its space must pass the test of orientations.
Mesh_tested(vertices, groups, skip) ==
    LET m == Mesh(vertices, groups)
    IN  IF skip THEN [status |-> "ok", mesh |-> m]
        ELSE IF test_volume_mesh_element_orientations(m).value
        THEN [status |-> "ok", mesh |-> m]
        ELSE [status |-> "AssertionError", mesh |-> NoMesh]

\* flip_flags.astype(np.bool)
astype_bool(a) == [i \in 1..Len(a) |-> a[i] # 0]

\* a[start:stop] of a one-dimensional array: clipped to the array.
np_slice(a, start, stop) ==
    [i \in 1..Max(Min(stop, Len(a)) - Min(start, Len(a)), 0) |->
        a[Min(start, Len(a)) + i]]

\* grp.copy()
group_copy(g) == g

\* The loop with every group handed the start of the mask.
RECURSIVE perform_flips_loop_from_start(_, _, _, _, _)
perform_flips_loop_from_start(m, i, flags, new_groups, events) ==
    IF i > Len(m.groups)
    THEN [status |-> "ok", new_groups |-> new_groups, events |-> events]
    ELSE LET g == m.groups[i]
             grp_flags == np_slice(flags, 0, Len(g.vertex_indices))
         IN  IF \E e \in 1..Len(grp_flags) : grp_flags[e]
             THEN LET r == flip_simplex_element_group(m.vertices, g, grp_flags)
                  IN  IF r.status # "ok"
                      THEN [status |-> r.status, new_groups |-> <<>>,
                            events |-> events]
                      ELSE perform_flips_loop_from_start(m, i + 1, flags,
                               Append(new_groups, r.group),
                               Append(events, [did |-> "flip", mask |-> grp_flags]))
             ELSE perform_flips_loop_from_start(m, i + 1, flags,
                      Append(new_groups, group_copy(g)),
                      Append(events, [did |-> "copy", mask |-> grp_flags]))

\* The loop over mesh.groups.  events: per group, the mask it was handed and
\* whether it was flipped or copied.
RECURSIVE perform_flips_loop(_, _, _, _, _)
perform_flips_loop(m, i, flags, new_groups, events) ==
    IF i > Len(m.groups)
    THEN [status |-> "ok", new_groups |-> new_groups, events |-> events]
    ELSE LET g == m.groups[i]
             grp_flags == np_slice(flags, g.element_nr_base,
                              g.element_nr_base + Len(g.vertex_indices))
         IN  IF \E e \in 1..Len(grp_flags) : grp_flags[e]
             THEN LET r == flip_simplex_element_group(m.vertices, g, grp_flags)
                  IN  IF r.status # "ok"
                      THEN [status |-> r.status, new_groups |-> <<>>,
                            events |-> events]
                      ELSE perform_flips_loop(m, i + 1, flags,
                               Append(new_groups, r.group),
                               Append(events, [did |-> "flip", mask |-> grp_flags]))
             ELSE perform_flips_loop(m, i + 1, flags,
                      Append(new_groups, group_copy(g)),
                      Append(events, [did |-> "copy", mask |-> grp_flags]))

\* inputs_after: the input mesh as the call leaves it.
perform_flips(m, flags, skip) ==
    LET l == perform_flips_loop(m, 1, astype_bool(flags), <<>>, <<>>)
    IN  IF l.status # "ok"
        THEN [status |-> l.status, mesh |-> NoMesh, events |-> l.events,
              inputs_after |-> m]
        ELSE LET built == Mesh_tested(m.vertices, l.new_groups, skip)
             IN  [status |-> built.status, mesh |-> built.mesh,
                  events |-> l.events, inputs_after |-> m]

(***************************************************************************)
(* The components are exercised one at a time: the other components' state *)
(* is idle.                                                                *)
(***************************************************************************)
NoMergeCall ==
    [status |-> "none", mesh |-> NoMesh, events |-> <<>>, called_with |-> <<>>]

IdleMerge == meshes = <<>> /\ merge_ret = NoMergeCall

NoFlipCall == [status |-> "none", group |-> <<>>, called_with |-> <<>>]

IdleFlip ==
    /\ flip_grp = <<>>
    /\ grp_flip_flags = <<>>
    /\ numerics = "exact"
    /\ flip_ret = NoFlipCall
    /\ reflip_ret = NoFlipCall

NoOrientCall ==
    [status |-> "none", result |-> <<>>, visited |-> <<>>]

IdleOrient ==
    /\ orient_mesh = NoMesh
    /\ tolerate_unimplemented_checks = FALSE
    /\ orient_ret = NoOrientCall

NoAffineCall == [status |-> "none", mesh |-> NoMesh, called_with |-> NoMesh]

IdleAffine ==
    /\ affine_mesh = NoMesh
    /\ affine_A = NoArg
    /\ affine_b = NoArg
    /\ affine_ret = NoAffineCall

NotLaunched ==
    [op |-> "none", status |-> "none", vec |-> NoArray, ref_axes |-> <<>>]

IdlePar ==
    /\ launched = NotLaunched
    /\ result_buf = NoArray
    /\ pending = {}
    /\ accesses = [writes |-> {}, reads |-> {}]

NoPerformFlipsCall ==
    [status |-> "none", mesh |-> NoMesh, events |-> <<>>, called_with |-> NoMesh]

IdlePflip ==
    /\ pflip_mesh = NoMesh
    /\ flip_flags = <<>>
    /\ skip_tests = FALSE
    /\ pflip_ret = NoPerformFlipsCall

IdleDiscr ==
    /\ mesh = [ambient_dim |-> 2, groups |-> <<>>]
    /\ group_factory = [order |-> 1, mesh_group_class |-> "SimplexElementGroup"]
    /\ discr = [status |-> "unbuilt", groups |-> <<>>, nnodes |-> 0]
    /\ nodes_memo = [populated |-> FALSE, value |-> NoArray]
    /\ runs = [nodes |-> 0, quad_weights |-> 0]
    /\ ret = [op |-> "none", status |-> "ok", result |-> NoArray, grp |-> 0,
              array |-> NoArray, ref_axes |-> <<>>]

(***************************************************************************)
(* The discretization as a state machine: construction, then any sequence  *)
(* of calls on the one instance.                                           *)
(***************************************************************************)
\* Mesh(groups): the mesh numbers its elements contiguously over its groups.
RECURSIVE with_element_nr_base(_, _)
with_element_nr_base(shapes, base) ==
    IF shapes = <<>> THEN <<>>
    ELSE <<[kind |-> Head(shapes).kind, dim |-> Head(shapes).dim,
            order |-> Head(shapes).order, nelements |-> Head(shapes).nelements,
            element_nr_base |-> base]>>
         \o with_element_nr_base(Tail(shapes), base + Head(shapes).nelements)

GroupShapes ==
    [kind : MeshGroupKinds, dim : {1, 2}, order : {1}, nelements : 0..MaxElements]

DiscrMeshes ==
    {[ambient_dim |-> 2, groups |-> with_element_nr_base(s, 0)] :
        s \in UNION {[1..n -> GroupShapes] : n \in 0..MaxGroups}}

Factories == [order : {1, 2}, mesh_group_class : {"SimplexElementGroup"}]

Unbuilt == [status |-> "unbuilt", groups |-> <<>>, nnodes |-> 0]

NoCall ==
    [op |-> "none", status |-> "ok", result |-> NoArray, grp |-> 0,
     array |-> NoArray, ref_axes |-> <<>>]

InitDiscr ==
    /\ mesh \in DiscrMeshes
    /\ group_factory \in Factories
    /\ discr = Unbuilt
    /\ nodes_memo = [populated |-> FALSE, value |-> NoArray]
    /\ runs = [nodes |-> 0, quad_weights |-> 0]
    /\ ret = NoCall
    /\ IdleMerge
    /\ IdleFlip
    /\ IdleOrient
    /\ IdleAffine
    /\ IdlePar
    /\ IdlePflip

\* Discretization(cl_ctx, mesh, group_factory): an exception leaves no object.
Construct ==
    /\ discr.status = "unbuilt"
    /\ discr' = Discretization_init(mesh, group_factory)
    /\ ret' = [NoCall EXCEPT !.op = "__init__", !.status = discr'.status]
    /\ UNCHANGED <<mesh, group_factory, nodes_memo, runs, not_discr_vars>>

\* discr.nodes(): @memoize_method returns the cached array when there is one.
CallNodes ==
    /\ discr.status = "ok"
    /\ IF nodes_memo.populated
       THEN /\ ret' = [NoCall EXCEPT !.op = "nodes", !.result = nodes_memo.value]
            /\ UNCHANGED <<nodes_memo, runs>>
       ELSE /\ nodes_memo' = [populated |-> TRUE, value |-> nodes(discr, mesh)]
            /\ runs' = [runs EXCEPT !.nodes = @ + 1]
            /\ ret' = [NoCall EXCEPT !.op = "nodes", !.result = nodes_memo'.value]
    /\ UNCHANGED <<mesh, group_factory, discr, not_discr_vars>>

\* discr.quad_weights(queue)
CallQuadWeights ==
    /\ discr.status = "ok"
    /\ runs.quad_weights < MaxCalls
    /\ runs' = [runs EXCEPT !.quad_weights = @ + 1]
    /\ ret' = [NoCall EXCEPT !.op = "quad_weights", !.result = quad_weights(discr)]
    /\ UNCHANGED <<mesh, group_factory, discr, nodes_memo, not_discr_vars>>

\* An array of the given shape whose cells hold their own flat position.
iota(shape) == [shape |-> shape, data |-> [p \in 1..Prod(shape) |-> p]]

\* A field of the given shape.
field(shape, pat) ==
    [shape |-> shape, data |-> [p \in 1..Prod(shape) |-> (pat * p) % 3]]

ExtraDims == {<<>>, <<2>>}

TrailingDims(d) ==
    {n \in {0, d.nnodes - 1, d.nnodes, d.nnodes + 1} : n >= 0}

\* grp.view(global_array) on one of the groups
CallView ==
    /\ discr.status = "ok"
    /\ \E g \in 1..Len(discr.groups), extra \in ExtraDims, n \in TrailingDims(discr) :
          LET global_array == iota(extra \o <<n>>)
              v == view(discr.groups[g], global_array)
          IN  ret' = [NoCall EXCEPT !.op = "view", !.status = v.status,
                         !.grp = g, !.array = global_array,
                         !.result = [shape |-> v.shape,
                                     data |-> read_view(global_array, v)]]
    /\ UNCHANGED <<mesh, group_factory, discr, nodes_memo, runs, not_discr_vars>>

RefAxesChoices == {<<>>, <<0>>, <<1>>, <<0, 0>>, <<1, 0>>}

\* discr.num_reference_derivative(queue, ref_axes, vec)
CallNumReferenceDerivative ==
    /\ discr.status = "ok"
    /\ \E ref_axes \in RefAxesChoices, extra \in ExtraDims, pat \in {1},
          n \in {discr.nnodes, discr.nnodes + 1} :
          LET vec == field(extra \o <<n>>, pat)
              r == num_reference_derivative(discr, ref_axes, vec)
          IN  ret' = [NoCall EXCEPT !.op = "num_reference_derivative",
                         !.status = r.status, !.array = vec,
                         !.ref_axes = ref_axes, !.result = r.result]
    /\ UNCHANGED <<mesh, group_factory, discr, nodes_memo, runs, not_discr_vars>>

\* Construction and the memoized queries.
NextDiscr ==
    \/ Construct
    \/ CallNodes
    \/ CallQuadWeights

SpecDiscr == InitDiscr /\ [][NextDiscr]_vars

\* Construction and the addressing primitive.
NextView ==
    \/ Construct
    \/ CallView

SpecView == InitDiscr /\ [][NextView]_vars

\* Construction and differentiation.
NextDeriv ==
    \/ Construct
    \/ CallNumReferenceDerivative

SpecDeriv == InitDiscr /\ [][NextDeriv]_vars

(***************************************************************************)
(* merge_disjoint_meshes as a state machine: one call on a list of meshes. *)
(***************************************************************************)
MaxMeshes == 2

\* Meshes of line segments of order 1, with their nodes at their vertices.
\* A layout gives, per group, its class, its number of elements and the
\* vertex its first element starts at.
MergeLayouts ==
    { <<>>,
      <<[kind |-> "SimplexElementGroup", nelements |-> 1, first |-> 0]>>,
      <<[kind |-> "SimplexElementGroup", nelements |-> 2, first |-> 1],
        [kind |-> "SimplexElementGroup", nelements |-> 0, first |-> 0]>>,
      <<[kind |-> "MeshElementGroup", nelements |-> 1, first |-> 0],
        [kind |-> "SimplexElementGroup", nelements |-> 1, first |-> 1]>> }

segment_mesh(ambient_dim, nvertices, layout) ==
    LET vertices ==
            [d \in 1..ambient_dim |-> [v \in 1..nvertices |->
                1000 * ambient_dim + 100 * nvertices + 10 * Len(layout)
                    + 3 * d + v]]
        group(l) ==
            LET vertex_indices ==
                    [e \in 1..l.nelements |->
                        <<(l.first + e - 1) % nvertices,
                          (l.first + e) % nvertices>>]
            IN  [kind |-> l.kind, dim |-> 1, order |-> 1,
                 vertex_indices |-> vertex_indices,
                 nodes |-> [d \in 1..ambient_dim |-> [e \in 1..l.nelements |->
                              [j \in 1..2 |-> vertices[d][vertex_indices[e][j] + 1]]]],
                 unit_nodes |-> << <<0 - 1, 1>> >>,
                 element_nr_base |-> 0]
    IN  Mesh(vertices, [g \in 1..Len(layout) |-> group(layout[g])])

MergeInputMeshes ==
    {segment_mesh(ad, nv, l) : ad \in {1, 2}, nv \in {2, 3}, l \in MergeLayouts}

InitMerge ==
    /\ meshes \in UNION {[1..n -> MergeInputMeshes] : n \in 0..MaxMeshes}
    /\ merge_ret = NoMergeCall
    /\ IdleDiscr
    /\ IdleFlip
    /\ IdleOrient
    /\ IdleAffine
    /\ IdlePar
    /\ IdlePflip

\* merge_disjoint_meshes(meshes)
CallMerge ==
    /\ merge_ret.status = "none"
    /\ LET r == merge_disjoint_meshes(meshes)
       IN  /\ merge_ret' = [status |-> r.status, mesh |-> r.mesh,
                            events |-> r.events, called_with |-> meshes]
           /\ meshes' = r.inputs_after
    /\ UNCHANGED not_merge_vars

NextMerge == CallMerge

SpecMerge == InitMerge /\ [][NextMerge]_vars

(***************************************************************************)
(* flip_simplex_element_group as a state machine: a group is flipped, and  *)
(* the group returned is flipped again with the same mask.                 *)
(***************************************************************************)
\* Unit nodes of order 1: the segment's and the triangle's vertices, a
\* second node set of each that the flip does not map to itself, and two
\* coincident nodes.
FlipUnitNodes ==
    { << <<0 - 1, 1>> >>,
      << <<0 - 1, 0>> >>,
      << <<0, 0>> >>,
      << <<0 - 1, 1, 0 - 1>>, <<0 - 1, 0 - 1, 1>> >>,
      << <<0 - 1, 0, 0 - 1>>, <<0 - 1, 0 - 1, 0>> >> }

flip_input_group(kind, unit_nodes, nelements_) ==
    [kind |-> kind, dim |-> Len(unit_nodes), order |-> 1,
     vertex_indices |->
         [e \in 1..nelements_ |-> [c \in 1..(Len(unit_nodes) + 1) |-> e + c - 2]],
     nodes |->
         [d \in 1..Len(unit_nodes) |-> [e \in 1..nelements_ |->
             [j \in 1..Len(unit_nodes[1]) |-> 10 * d + 4 * e + j * j]]],
     unit_nodes |-> unit_nodes,
     element_nr_base |-> 0]

InitFlip ==
    /\ \E kind \in MeshGroupKinds, unit_nodes \in FlipUnitNodes,
          n \in 0..MaxElements :
          /\ flip_grp = flip_input_group(kind, unit_nodes, n)
          /\ grp_flip_flags \in [1..n -> BOOLEAN]
    /\ numerics \in {"exact", "inexact"}
    /\ flip_ret = NoFlipCall
    /\ reflip_ret = NoFlipCall
    /\ IdleDiscr
    /\ IdleMerge
    /\ IdleOrient
    /\ IdleAffine
    /\ IdlePar
    /\ IdlePflip

\* flip_simplex_element_group(vertices, grp, grp_flip_flags)
CallFlip ==
    /\ flip_ret.status = "none"
    /\ LET r == flip_simplex_element_group(<<>>, flip_grp, grp_flip_flags)
       IN  /\ flip_ret' = [status |-> r.status, group |-> r.group,
                           called_with |-> flip_grp]
           /\ flip_grp' = r.inputs_after
    /\ UNCHANGED <<grp_flip_flags, numerics, reflip_ret, not_flip_vars>>

\* flip_simplex_element_group(vertices, new_grp, grp_flip_flags) on the group
\* the first call returned
CallFlipAgain ==
    /\ flip_ret.status = "ok"
    /\ reflip_ret.status = "none"
    /\ LET r == flip_simplex_element_group(<<>>, flip_ret.group, grp_flip_flags)
       IN  /\ reflip_ret' = [status |-> r.status, group |-> r.group,
                             called_with |-> flip_ret.group]
           /\ flip_ret' = [flip_ret EXCEPT !.group = r.inputs_after]
    /\ UNCHANGED <<flip_grp, grp_flip_flags, numerics, not_flip_vars>>

NextFlip ==
    \/ CallFlip
    \/ CallFlipAgain

SpecFlip == InitFlip /\ [][NextFlip]_vars

(***************************************************************************)
(* find_volume_mesh_element_orientations as a state machine: one call on a *)
(* mesh, strict or tolerant.                                               *)
(***************************************************************************)
\* The vertices (0,0), (2,0), (0,1), (1,1).
OrientVertices == << <<0, 2, 0, 1>>, <<0, 0, 1, 1>> >>

\* A triangle of signed area element 2 and one of -1.
OrientTriangles == { <<0, 1, 2>>, <<0, 2, 3>> }

OrientGroups ==
    UNION { [kind : {"SimplexElementGroup"},
             vertex_indices : [1..n -> OrientTriangles]]
            \cup [kind : {"MeshElementGroup"},
                  vertex_indices : [1..n -> {<<0, 1, 3, 2>>}]]
            : n \in 0..MaxElements }

orient_group(shape) ==
    [kind |-> shape.kind, dim |-> 2, order |-> 1,
     vertex_indices |-> shape.vertex_indices,
     nodes |-> <<>>, unit_nodes |-> <<>>, element_nr_base |-> 0]

OrientMeshes ==
    {Mesh(OrientVertices, [g \in 1..Len(s) |-> orient_group(s[g])]) :
        s \in UNION {[1..n -> OrientGroups] : n \in 0..MaxGroups}}

InitOrient ==
    /\ orient_mesh \in OrientMeshes
    /\ tolerate_unimplemented_checks \in BOOLEAN
    /\ orient_ret = NoOrientCall
    /\ IdleDiscr
    /\ IdleMerge
    /\ IdleFlip
    /\ IdleAffine
    /\ IdlePar
    /\ IdlePflip

\* find_volume_mesh_element_orientations(mesh, tolerate_unimplemented_checks)
CallFindOrientations ==
    /\ orient_ret.status = "none"
    /\ orient_ret' = find_volume_mesh_element_orientations(
                         orient_mesh, tolerate_unimplemented_checks)
    /\ UNCHANGED <<orient_mesh, tolerate_unimplemented_checks, not_orient_vars>>

NextOrient == CallFindOrientations

SpecOrient == InitOrient /\ [][NextOrient]_vars

(***************************************************************************)
(* affine_map as a state machine: one call on a mesh.                      *)
(***************************************************************************)
\* The meshes of segments, with no connectivity or with the neighbours of
\* their elements.
AffineInputMeshes ==
    {[vertices |-> m.vertices, groups |-> m.groups, element_connectivity |-> c] :
        m \in MergeInputMeshes, c \in {"False", "element_neighbors"}}

\* No matrix, a scaling of the line, a shear with a swap of the plane and a
\* projection of the plane to the line.
AffineMatrices ==
    {NoArg, << <<2>> >>, << <<0, 1>>, <<2, 1>> >>, << <<1, 3>> >>}

AffineVectors == {NoArg, <<5>>, <<5, 7>>}

InitAffine ==
    /\ affine_mesh \in AffineInputMeshes
    /\ affine_A \in AffineMatrices
    /\ affine_b \in AffineVectors
    /\ affine_ret = NoAffineCall
    /\ IdleDiscr
    /\ IdleMerge
    /\ IdleFlip
    /\ IdleOrient
    /\ IdlePar
    /\ IdlePflip

\* affine_map(mesh, A, b)
CallAffineMap ==
    /\ affine_ret.status = "none"
    /\ LET r == affine_map(affine_mesh, affine_A, affine_b)
       IN  /\ affine_ret' = [status |-> r.status, mesh |-> r.mesh,
                             called_with |-> affine_mesh]
           /\ affine_mesh' = r.inputs_after
    /\ UNCHANGED <<affine_A, affine_b, not_affine_vars>>

NextAffine == CallAffineMap

SpecAffine == InitAffine /\ [][NextAffine]_vars

(***************************************************************************)
(* The per-group kernels of quad_weights, nodes and                        *)
(* num_reference_derivative run side by side.  The host allocates the      *)
(* result and hands every group's kernel its views; a kernel runs one work *)
(* group per element (k is tagged "g.0"), and the work groups of all the   *)
(* kernels run in any order, one at a time.                                *)
(***************************************************************************)
KernelOps == {"quad_weights", "nodes", "num_reference_derivative"}

\* The result the operation allocates.
kernel_result(op, d, m) ==
    IF op = "nodes" THEN empty(d, <<m.ambient_dim>>) ELSE empty(d, <<>>)

\* The values the group's kernel writes through its view of the result.
kernel_values(op, grp, m, ref_axes, vec) ==
    IF op = "quad_weights" THEN knl_quad_weights(grp, weights(grp))
    ELSE IF op = "nodes"
    THEN knl_nodes(grp, m.ambient_dim, resampling_matrix(grp),
                   mesh_el_group_nodes(m.ambient_dim, grp.mesh_el_group))
    ELSE knl_diff(grp, compose_diff_matrices(grp, ref_axes, <<>>).mat,
                  read_view(vec, view(grp, vec)))

\* Whether the host's call of the group's kernel raises.
kernel_call_fails(op, grp, ref_axes, vec, result) ==
    \/ view(grp, result).status # "ok"
    \/ /\ op = "num_reference_derivative"
       /\ LET c == compose_diff_matrices(grp, ref_axes, <<>>)
              vv == view(grp, vec)
          IN  \/ c.status # "ok"
              \/ c.mat = <<>>
              \/ vv.status # "ok"
              \/ Len(vv.shape) # 2

\* The element (k, from 1) that cell q of a group's view belongs to.
element_of(grp, q) == (((q - 1) % nnodes(grp)) \div nunit_nodes(grp)) + 1

\* The flat positions of the result that work group k of the group's kernel
\* writes: result[k, i], or result[d, k, i], for every i and d.
work_group_writes(grp, result, k) ==
    LET rv == view(grp, result)
    IN  {p \in 1..Len(result.data) :
            in_view(rv, p) /\ element_of(grp, view_cell(rv, p)) = k}

\* The flat positions of vec that work group k reads: vec[k, j] for every j.
work_group_reads(op, grp, vec, k) ==
    IF op # "num_reference_derivative" THEN {}
    ELSE {view_index(view(grp, vec), (k - 1) * nunit_nodes(grp) + j) :
             j \in 1..nunit_nodes(grp)}

\* Meshes of simplex groups, which the factory accepts.
ParMeshes ==
    {[ambient_dim |-> 2, groups |-> with_element_nr_base(sh, 0)] :
        sh \in UNION {[1..n -> [kind : {"SimplexElementGroup"}, dim : {1, 2},
                               order : {1}, nelements : 0..MaxElements]] :
                         n \in 0..MaxGroups}}

InitPar ==
    /\ mesh \in ParMeshes
    /\ group_factory = [order |-> 1, mesh_group_class |-> "SimplexElementGroup"]
    /\ discr = Unbuilt
    /\ nodes_memo = [populated |-> FALSE, value |-> NoArray]
    /\ runs = [nodes |-> 0, quad_weights |-> 0]
    /\ ret = NoCall
    /\ IdleMerge
    /\ IdleFlip
    /\ IdleOrient
    /\ IdleAffine
    /\ IdlePar
    /\ IdlePflip

\* The host side of an operation: the result is allocated and every group's
\* kernel is called with its views.
Launch ==
    /\ discr.status = "ok"
    /\ launched.op = "none"
    /\ \E op \in KernelOps, n \in {discr.nnodes, discr.nnodes + 1} :
          LET vec == IF op = "num_reference_derivative"
                     THEN iota(<<n>>) ELSE NoArray
              ref_axes == IF op = "num_reference_derivative"
                          THEN <<0>> ELSE <<>>
              result == kernel_result(op, discr, mesh)
              fails == \E g \in 1..Len(discr.groups) :
                          kernel_call_fails(op, discr.groups[g], ref_axes,
                                            vec, result)
          IN  /\ op # "num_reference_derivative" => n = discr.nnodes
              /\ launched' = [op |-> op,
                              status |-> IF fails THEN "failed" ELSE "running",
                              vec |-> vec, ref_axes |-> ref_axes]
              /\ result_buf' = result
              /\ pending' = IF fails THEN {}
                            ELSE UNION {{<<g, k>> :
                                            k \in 1..nelements(discr.groups[g])} :
                                        g \in 1..Len(discr.groups)}
    /\ UNCHANGED <<accesses, discr_vars, not_par_vars>>

\* One work group of one group's kernel runs.
RunWorkGroup ==
    /\ launched.status = "running"
    /\ \E w \in pending :
          LET grp == discr.groups[w[1]]
              values == kernel_values(launched.op, grp, mesh,
                                      launched.ref_axes, launched.vec)
              rv == view(grp, result_buf)
              cells == work_group_writes(grp, result_buf, w[2])
          IN  /\ result_buf' =
                    [result_buf EXCEPT !.data = [p \in 1..Len(result_buf.data) |->
                        IF p \in cells THEN values[view_cell(rv, p)]
                        ELSE result_buf.data[p]]]
              /\ accesses' =
                    [writes |-> accesses.writes \cup {<<w[1], p>> : p \in cells},
                     reads |-> accesses.reads \cup
                         {<<w[1], p>> :
                             p \in work_group_reads(launched.op, grp,
                                                    launched.vec, w[2])}]
              /\ pending' = pending \ {w}
    /\ UNCHANGED <<launched, discr_vars, not_par_vars>>

\* Every work group has run: the operation returns the result.
Finish ==
    /\ launched.status = "running"
    /\ pending = {}
    /\ launched' = [launched EXCEPT !.status = "returned"]
    /\ UNCHANGED <<result_buf, pending, accesses, discr_vars, not_par_vars>>

NextPar ==
    \/ Construct
    \/ Launch
    \/ RunWorkGroup
    \/ Finish

SpecPar == InitPar /\ [][NextPar]_vars

(***************************************************************************)
(* perform_flips as a state machine: one call on a mesh of the plane.      *)
(***************************************************************************)
\* Groups of triangles of order 1 with their nodes at their vertices, of
\* one orientation or, from the second element on, the other; and a group
\* of one quadrilateral.
PflipGroups ==
    {[kind |-> "SimplexElementGroup", first |-> f, nelements |-> n] :
        f \in OrientTriangles, n \in 1..MaxElements}
    \cup {[kind |-> "SimplexElementGroup", first |-> <<0, 1, 2>>, nelements |-> 0],
          [kind |-> "MeshElementGroup", first |-> <<0, 1, 3, 2>>, nelements |-> 1]}

pflip_group(shape) ==
    LET other(t) == IF shape.kind = "SimplexElementGroup"
                    THEN CHOOSE u \in OrientTriangles : u # t ELSE t
        vertex_indices ==
            [e \in 1..shape.nelements |->
                IF e = 1 THEN shape.first ELSE other(shape.first)]
    IN  [kind |-> shape.kind, dim |-> 2, order |-> 1,
         vertex_indices |-> vertex_indices,
         nodes |-> [d \in 1..2 |-> [e \in 1..shape.nelements |->
                      [j \in 1..Len(shape.first) |->
                          OrientVertices[d][vertex_indices[e][j] + 1]]]],
         unit_nodes |-> << <<0 - 1, 1, 0 - 1>>, <<0 - 1, 0 - 1, 1>> >>,
         element_nr_base |-> 0]

PflipMeshes ==
    {Mesh(OrientVertices, [g \in 1..Len(sh) |-> pflip_group(sh[g])]) :
        sh \in UNION {[1..n -> PflipGroups] : n \in 0..MaxGroups}}

\* No element, every element, the elements of negative orientation, and
\* every second element.
PflipMasks(m) ==
    LET n == mesh_nelements(m)
        area_elements == find_volume_mesh_element_orientations(m, TRUE).result
    IN  {[e \in 1..n |-> 0],
         [e \in 1..n |-> 2],
         [e \in 1..n |-> IF area_elements[e] # nan /\ area_elements[e] < 0
                         THEN 1 ELSE 0],
         [e \in 1..n |-> e % 2]}

InitPflip ==
    /\ pflip_mesh \in PflipMeshes
    /\ flip_flags \in PflipMasks(pflip_mesh)
    /\ skip_tests \in BOOLEAN
    /\ pflip_ret = NoPerformFlipsCall
    /\ numerics \in {"exact", "inexact"}
    /\ flip_grp = <<>>
    /\ grp_flip_flags = <<>>
    /\ flip_ret = NoFlipCall
    /\ reflip_ret = NoFlipCall
    /\ IdleDiscr
    /\ IdleMerge
    /\ IdleOrient
    /\ IdleAffine
    /\ IdlePar

\* perform_flips(mesh, flip_flags, skip_tests)
CallPerformFlips ==
    /\ pflip_ret.status = "none"
    /\ LET r == perform_flips(pflip_mesh, flip_flags, skip_tests)
       IN  /\ pflip_ret' = [status |-> r.status, mesh |-> r.mesh,
                            events |-> r.events, called_with |-> pflip_mesh]
           /\ pflip_mesh' = r.inputs_after
    /\ UNCHANGED <<flip_flags, skip_tests, not_pflip_vars>>

NextPflip == CallPerformFlips

SpecPflip == InitPflip /\ [][NextPflip]_vars

(***************************************************************************)
(* Properties of the discretization.                                       *)
(***************************************************************************)
\* The node count the factory's group class gives mesh group i.
group_node_count(i) ==
    simplex_nnodes(mesh.groups[i].dim, group_factory.order)
        * mesh.groups[i].nelements

node_range(i) ==
    {p \in 0..(discr.nnodes - 1) :
        /\ discr.groups[i].node_nr_base <= p
        /\ p < discr.groups[i].node_nr_base + group_node_count(i)}

\* C1: after construction the groups' ranges [node_nr_base, node_nr_base +
\* nnodes) partition [0, total nnodes): one group per mesh group in mesh
\* order, each base the sum of the node counts of the groups before it (0
\* for the first), nnodes the sum of all node counts, every position in
\* exactly one range, groups of zero elements included.
C1_NodeRangesPartition ==
    discr.status = "ok" =>
        /\ Len(discr.groups) = Len(mesh.groups)
        /\ \A i \in 1..Len(discr.groups) :
              /\ discr.groups[i].mesh_el_group = mesh.groups[i]
              /\ discr.groups[i].node_nr_base
                    = SumSeq([j \in 1..(i - 1) |-> group_node_count(j)])
              /\ discr.groups[i].node_nr_base + group_node_count(i)
                    <= discr.nnodes
        /\ discr.nnodes
              = SumSeq([j \in 1..Len(mesh.groups) |-> group_node_count(j)])
        /\ \A p \in 0..(discr.nnodes - 1) :
              Cardinality({i \in 1..Len(discr.groups) : p \in node_range(i)}) = 1

\* A discretization of two groups with nodes, of different sizes.
C1_Witness ==
    /\ discr.status = "ok"
    /\ Len(discr.groups) = 2
    /\ group_node_count(1) > 0
    /\ group_node_count(2) > group_node_count(1)
    /\ discr.groups[2].node_nr_base = group_node_count(1)

\* C2: view fails for every group whenever the array's trailing dimension
\* is not the discretization's nnodes, larger or smaller; with the trailing
\* dimension nnodes it returns the positions [node_nr_base, node_nr_base +
\* nnodes) of every leading row, shaped (..., nelements, nunit_nodes).
\* Stated for the groups that have nodes.
C2_ViewFailsOnOtherTrailingDim ==
    (ret.op = "view" /\ group_node_count(ret.grp) > 0) =>
        LET grp == discr.groups[ret.grp]
            n == Last(ret.array.shape)
            lead == Front(ret.array.shape)
        IN  IF n # discr.nnodes
            THEN ret.status # "ok"
            ELSE /\ ret.status = "ok"
                 /\ ret.result.shape
                       = lead \o <<grp.mesh_el_group.nelements,
                                   simplex_nnodes(grp.mesh_el_group.dim, grp.order)>>
                 /\ Len(ret.result.data) = Prod(lead) * group_node_count(ret.grp)
                 /\ \A r \in 0..(Prod(lead) - 1), c \in 1..group_node_count(ret.grp) :
                       ret.result.data[r * group_node_count(ret.grp) + c]
                           = r * n + grp.node_nr_base + c

\* C3: over any sequence of nodes() and quad_weights() calls on one
\* instance, each of the two arrays is computed at most once.  Stated for
\* the discretizations that have nodes.
C3_EachArrayComputedAtMostOnce ==
    discr.nnodes > 0 =>
        /\ runs.nodes <= 1
        /\ runs.quad_weights <= 1

\* C4: for a field of shape (extra dims..., nnodes) and reference axes every
\* group has, num_reference_derivative returns a new array of the field's
\* shape, leading dimensions included.
C4_ResultShapedLikeField ==
    ( /\ ret.op = "num_reference_derivative"
      /\ discr.nnodes > 0
      /\ Last(ret.array.shape) = discr.nnodes
      /\ ret.ref_axes # <<>>
      /\ \A i \in 1..Len(discr.groups), a \in 1..Len(ret.ref_axes) :
            ret.ref_axes[a] < discr.groups[i].mesh_el_group.dim )
    => /\ ret.status = "ok"
       /\ ret.result.shape = ret.array.shape

(***************************************************************************)
(* Properties of merge_disjoint_meshes.                                    *)
(***************************************************************************)
\* The number of vertices of the meshes before mesh k of the call.
vertex_offset(k) ==
    SumSeq([m \in 1..(k - 1) |-> Len(merge_ret.called_with[m].vertices[1])])

\* The number of groups of the meshes before mesh k of the call.
group_offset(k) ==
    SumSeq([m \in 1..(k - 1) |-> Len(merge_ret.called_with[m].groups)])

merge_accepts(ms) ==
    /\ ms # <<>>
    /\ \A i, j \in 1..Len(ms) : Len(ms[i].vertices) = Len(ms[j].vertices)

indices_in_range(m) ==
    \A g \in 1..Len(m.groups) : \A e \in 1..Len(m.groups[g].vertex_indices) :
        \A j \in 1..Len(m.groups[g].vertex_indices[e]) :
            /\ 0 <= m.groups[g].vertex_indices[e][j]
            /\ m.groups[g].vertex_indices[e][j] < Len(m.vertices[1])

\* C6: for meshes whose vertex indices lie in their own [0, nvertices), the
\* merged mesh has as many vertices as the meshes together, every merged
\* vertex index lies in [0, total), and a merged vertex index of a group of
\* mesh k names the coordinates the original index named in mesh k.
C6_MergedIndicesInRange ==
    ( /\ merge_ret.status = "ok"
      /\ \A k \in 1..Len(merge_ret.called_with) :
            indices_in_range(merge_ret.called_with[k]) )
    => LET ms == merge_ret.called_with
           out == merge_ret.mesh
       IN  /\ Len(out.vertices[1])
                 = SumSeq([k \in 1..Len(ms) |-> Len(ms[k].vertices[1])])
           /\ indices_in_range(out)
           /\ \A k \in 1..Len(ms) : \A g \in 1..Len(ms[k].groups) :
                 \A e \in 1..Len(ms[k].groups[g].vertex_indices) :
                     \A j \in 1..Len(ms[k].groups[g].vertex_indices[e]) :
                         \A d \in 1..Len(out.vertices) :
                             out.vertices[d][
                                 out.groups[group_offset(k) + g].vertex_indices[e][j] + 1]
                             = ms[k].vertices[d][
                                 ms[k].groups[g].vertex_indices[e][j] + 1]

\* Two meshes with elements merged, of different vertex counts.
C6_Witness ==
    /\ merge_ret.status = "ok"
    /\ Len(merge_ret.called_with) = 2
    /\ Len(merge_ret.called_with[1].vertices[1]) = 3
    /\ Len(merge_ret.called_with[2].vertices[1]) = 2
    /\ \A k \in 1..2 : \E g \in 1..Len(merge_ret.called_with[k].groups) :
          Len(merge_ret.called_with[k].groups[g].vertex_indices) > 0
    /\ Len(merge_ret.mesh.vertices[1]) = 5

\* C7: merge fails with the invalid-argument error for the empty list and
\* for meshes of more than one ambient dimension, and only then; at the
\* error no vertex array was allocated, no group copied and no Mesh built,
\* and the meshes handed in are as they were.
C7_MergeRejectsBeforeAllocating ==
    merge_ret.status # "none" =>
        /\ merge_ret.status = "ValueError" <=> ~merge_accepts(merge_ret.called_with)
        /\ merge_ret.status = "ValueError" =>
              /\ merge_ret.events = <<>>
              /\ merge_ret.mesh = NoMesh
        /\ meshes = merge_ret.called_with

\* A call with two meshes of different ambient dimensions, refused.
C7_Witness ==
    /\ merge_ret.status = "ValueError"
    /\ Len(merge_ret.called_with) = 2
    /\ Len(merge_ret.called_with[1].vertices)
          # Len(merge_ret.called_with[2].vertices)

(***************************************************************************)
(* Properties of flip_simplex_element_group.                               *)
(***************************************************************************)
\* What a flip of the group before, under the mask, has to give in after.
flipped_as_claimed(before, after, flags) ==
    /\ Len(after.vertex_indices) = Len(before.vertex_indices)
    /\ Len(after.nodes) = Len(before.nodes)
    /\ \A e \in 1..Len(before.vertex_indices) :
          /\ Len(after.vertex_indices[e]) = Len(before.vertex_indices[e])
          /\ IF flags[e]
             THEN /\ after.vertex_indices[e][1] = before.vertex_indices[e][2]
                  /\ after.vertex_indices[e][2] = before.vertex_indices[e][1]
                  /\ \A c \in 3..Len(before.vertex_indices[e]) :
                        after.vertex_indices[e][c] = before.vertex_indices[e][c]
             ELSE /\ after.vertex_indices[e] = before.vertex_indices[e]
                  /\ \A d \in 1..Len(before.nodes) :
                        after.nodes[d][e] = before.nodes[d][e]
    /\ after.order = before.order
    /\ after.unit_nodes = before.unit_nodes

\* C8: on a simplex group the flip returns a new group with columns 0 and 1
\* of the vertex indices of every flagged element swapped and its other
\* columns as they were, the vertex indices and nodes of every unflagged
\* element as they were, and the order and unit nodes carried over; the
\* group handed in keeps its vertex indices and nodes.
C8_FlipSwapsFlaggedOnly ==
    ( /\ flip_ret.status # "none"
      /\ flip_ret.called_with.kind = "SimplexElementGroup" )
    => /\ flip_ret.status # "NotImplementedError"
       /\ flip_grp = flip_ret.called_with
       /\ (flip_ret.status = "ok" /\ reflip_ret.status = "none") =>
             flipped_as_claimed(flip_ret.called_with, flip_ret.group,
                                grp_flip_flags)
       /\ reflip_ret.status = "ok" =>
             /\ flip_ret.group = reflip_ret.called_with
             /\ flipped_as_claimed(reflip_ret.called_with, reflip_ret.group,
                                   grp_flip_flags)

\* A triangle group returned with one element flipped and one not.
C8_Witness ==
    /\ flip_ret.status = "ok"
    /\ reflip_ret.status = "none"
    /\ Len(flip_ret.called_with.vertex_indices) = 2
    /\ Len(flip_ret.called_with.vertex_indices[1]) = 3
    /\ grp_flip_flags[1] /\ ~grp_flip_flags[2]
    /\ flip_ret.group.vertex_indices[1] # flip_ret.called_with.vertex_indices[1]
    /\ flip_ret.group.nodes # flip_ret.called_with.nodes

\* C9: flipping twice with one mask gives back the node coordinates of the
\* group first handed in, for its flagged and its unflagged elements (the
\* tolerance of the involution assertion is exactness here).
C9_FlipTwiceRestoresNodes ==
    reflip_ret.status = "ok" =>
        /\ reflip_ret.group.nodes = flip_ret.called_with.nodes
        /\ flip_ret.called_with.nodes = flip_grp.nodes

\* A group flipped twice whose first flip moved the nodes of a flagged
\* element, by a flip matrix that is no permutation.
C9_Witness ==
    /\ reflip_ret.status = "ok"
    /\ \E e \in 1..Len(grp_flip_flags) : grp_flip_flags[e]
    /\ \E e \in 1..Len(grp_flip_flags) : ~grp_flip_flags[e]
    /\ flip_grp.unit_nodes = << <<0 - 1, 0, 0 - 1>>, <<0 - 1, 0 - 1, 0>> >>
    /\ flip_ret.group.nodes # flip_grp.nodes

(***************************************************************************)
(* Properties of find_volume_mesh_element_orientations.                    *)
(***************************************************************************)
supported(g) == g.kind = "SimplexElementGroup"

\* The positions (from 1) of the result that belong to group g.
element_window(g) ==
    (g.element_nr_base + 1)..(g.element_nr_base + Len(g.vertex_indices))

\* Twice the signed area of element e of group g of the mesh.
expected_orientation(g, e) ==
    LET x(c) == orient_mesh.vertices[1][g.vertex_indices[e][c] + 1]
        y(c) == orient_mesh.vertices[2][g.vertex_indices[e][c] + 1]
    IN  (x(2) - x(1)) * (y(3) - y(1)) - (y(2) - y(1)) * (x(3) - x(1))

\* C10: the groups are visited in mesh order and each group's results go to
\* [element_nr_base, element_nr_base + nelements) of the result.  With an
\* unsupported group the strict call fails with the unsupported-topology
\* error and returns no result, having visited the groups before the first
\* unsupported one; the tolerant call returns, with not-a-number in exactly
\* the unsupported groups' windows and the computed orientation, never
\* not-a-number, in every supported group's window.
C10_OrientationWindows ==
    orient_ret.status # "none" =>
        LET gs == orient_mesh.groups
            unsupported == {i \in 1..Len(gs) : ~supported(gs[i])}
            strict_fails == ~tolerate_unimplemented_checks /\ unsupported # {}
        IN  /\ strict_fails =>
                  /\ orient_ret.status = "NotImplementedError"
                  /\ orient_ret.result = <<>>
                  /\ orient_ret.visited
                        = [k \in 1..(Len(orient_ret.visited)) |-> k]
                  /\ Len(orient_ret.visited) + 1 \in unsupported
                  /\ \A i \in unsupported : i > Len(orient_ret.visited)
            /\ ~strict_fails =>
                  /\ orient_ret.status = "ok"
                  /\ orient_ret.visited = [k \in 1..Len(gs) |-> k]
                  /\ Len(orient_ret.result) = mesh_nelements(orient_mesh)
                  /\ \A i \in 1..Len(gs) : \A e \in 1..Len(gs[i].vertex_indices) :
                        LET r == orient_ret.result[gs[i].element_nr_base + e]
                        IN  IF supported(gs[i])
                            THEN r = expected_orientation(gs[i], e) /\ r # nan
                            ELSE r = nan
                  /\ \A p \in 1..Len(orient_ret.result) :
                        \E i \in 1..Len(gs) : p \in element_window(gs[i])

\* A tolerant call on a mesh of an unsupported group with elements followed
\* by a supported group with elements.
C10_Witness ==
    /\ orient_ret.status = "ok"
    /\ tolerate_unimplemented_checks
    /\ Len(orient_mesh.groups) = 2
    /\ ~supported(orient_mesh.groups[1])
    /\ supported(orient_mesh.groups[2])
    /\ Len(orient_mesh.groups[1].vertex_indices) > 0
    /\ Len(orient_mesh.groups[2].vertex_indices) = 2
    /\ orient_ret.result[1] = nan
    /\ orient_ret.result[Len(orient_ret.result)] # nan

(***************************************************************************)
(* Properties of affine_map.                                               *)
(***************************************************************************)
\* The matrix and the vector the call ran with.
affine_A_used ==
    IF affine_A = NoArg
    THEN [i \in 1..Len(affine_ret.called_with.vertices) |->
             [j \in 1..Len(affine_ret.called_with.vertices) |->
                 IF i = j THEN 1 ELSE 0]]
    ELSE affine_A

affine_b_used(i) ==
    IF affine_b = NoArg THEN 0
    ELSE IF Len(affine_b) = 1 THEN affine_b[1] ELSE affine_b[i]

\* Coordinate i of A x + b, x the point of coordinates x[1], x[2], ...
affine_image(x, i) ==
    LET row == affine_A_used[IF Len(affine_A_used) = 1 THEN 1 ELSE i]
    IN  SumSeq([j \in 1..Len(x) |-> row[j] * x[j]]) + affine_b_used(i)

\* C11: affine_map returns a new mesh of as many groups, in the same order,
\* each with the input group's vertex_indices, unit_nodes, order and
\* topology; the connectivity descriptor is the input's; the vertices and
\* the nodes are the images of the input's under x -> A x + b; the input
\* mesh is left as it was, and the output is built with validation skipped.
C11_AffineMapChangesOnlyGeometry ==
    affine_ret.status # "none" =>
        LET before == affine_ret.called_with
            after == affine_ret.mesh
        IN  /\ affine_mesh = before
            /\ affine_ret.status = "ok" =>
                  /\ Len(after.groups) = Len(before.groups)
                  /\ \A g \in 1..Len(before.groups) :
                        LET bg == before.groups[g]
                            ag == after.groups[g]
                        IN  /\ ag.vertex_indices = bg.vertex_indices
                            /\ ag.unit_nodes = bg.unit_nodes
                            /\ ag.order = bg.order
                            /\ ag.kind = bg.kind
                            /\ ag.dim = bg.dim
                            /\ ag.element_nr_base = bg.element_nr_base
                            /\ \A i \in 1..Len(ag.nodes) :
                               \A e \in 1..Len(bg.vertex_indices) :
                               \A n \in 1..Len(bg.nodes[1][e]) :
                                  ag.nodes[i][e][n]
                                    = affine_image(
                                        [j \in 1..Len(bg.nodes) |-> bg.nodes[j][e][n]], i)
                  /\ \A i \in 1..Len(after.vertices) :
                     \A v \in 1..Len(before.vertices[1]) :
                        after.vertices[i][v]
                          = affine_image(
                              [j \in 1..Len(before.vertices) |-> before.vertices[j][v]], i)
                  /\ Len(after.vertices[1]) = Len(before.vertices[1])
                  /\ after.element_connectivity = before.element_connectivity
                  /\ after.skip_tests

\* A shear of a mesh of the plane of two groups with elements, which has a
\* connectivity descriptor, moved every vertex.
C11_Witness ==
    /\ affine_ret.status = "ok"
    /\ Len(affine_A) = 2
    /\ affine_b = <<5, 7>>
    /\ Len(affine_mesh.groups) = 2
    /\ \A g \in 1..2 : Len(affine_mesh.groups[g].vertex_indices) > 0
    /\ affine_mesh.element_connectivity = "element_neighbors"
    /\ affine_mesh.groups[1].kind # affine_mesh.groups[2].kind
    /\ \A v \in 1..Len(affine_mesh.vertices[1]) :
          affine_ret.mesh.vertices[1][v] # affine_mesh.vertices[1][v]

(***************************************************************************)
(* Properties of the construction of a Discretization.                     *)
(***************************************************************************)
\* The mesh groups the factory does not take.
mismatched_groups ==
    {i \in 1..Len(mesh.groups) :
        mesh.groups[i].kind # group_factory.mesh_group_class
        /\ group_factory.mesh_group_class # "MeshElementGroup"}

\* C12: given a mesh group of another kind than the one it declares, the
\* factory fails with TypeError, and the construction of a Discretization
\* stops at the first such group in mesh order, whatever the number of
\* groups accepted before it: there is no Discretization.  Without such a
\* group the construction succeeds.
C12_ConstructionAbortsAtFirstMismatch ==
    discr.status # "unbuilt" =>
        IF mismatched_groups = {}
        THEN discr.status = "ok" /\ Len(discr.groups) = Len(mesh.groups)
        ELSE /\ discr.status = "TypeError"
             /\ discr.groups = <<>>
             /\ discr.accepted + 1 \in mismatched_groups
             /\ \A i \in mismatched_groups : discr.accepted < i
             /\ ret.op = "__init__"

\* The construction failed at the second group, after the factory had
\* accepted a first group with elements.
C12_Witness ==
    /\ discr.status = "TypeError"
    /\ discr.accepted = 1
    /\ mesh.groups[1].nelements > 0
    /\ mesh.groups[2].nelements > 0

(***************************************************************************)
(* Properties of the per-group kernels run side by side.                   *)
(***************************************************************************)
\* What the operation returns when its groups are taken one after another.
sequential_result ==
    IF launched.op = "quad_weights" THEN quad_weights(discr)
    ELSE IF launched.op = "nodes" THEN nodes(discr, mesh)
    ELSE num_reference_derivative(discr, launched.ref_axes, launched.vec).result

\* Whether flat position p of an array of n trailing entries lies in the
\* window [node_nr_base, node_nr_base + nnodes) of group g.
in_own_window(g, p, n) ==
    LET node == (p - 1) % n
        first == SumSeq([h \in 1..(g - 1) |-> group_node_count(h)])
    IN  first <= node /\ node < first + group_node_count(g)

\* C13: run in any order, the work groups of the kernels of quad_weights,
\* nodes and num_reference_derivative write only into their own group's
\* window of the result and read only their own group's window of the
\* argument, no position is written by two groups, at every moment a
\* position holds what the group-by-group execution puts there or is still
\* unwritten, and the result returned is that of the group-by-group
\* execution.
C13_KernelsKeepToTheirWindows ==
    launched.status \in {"running", "returned"} =>
        /\ \A a \in accesses.writes :
              in_own_window(a[1], a[2], discr.nnodes)
        /\ \A a \in accesses.reads :
              in_own_window(a[1], a[2], Last(launched.vec.shape))
        /\ \A a, b \in accesses.writes : a[2] = b[2] => a[1] = b[1]
        /\ \A p \in 1..Len(result_buf.data) :
              IF \E a \in accesses.writes : a[2] = p
              THEN result_buf.data[p] = sequential_result.data[p]
              ELSE result_buf.data[p] = uninit
        /\ launched.status = "returned" =>
              /\ result_buf = sequential_result
              /\ \A p \in 1..Len(result_buf.data) : result_buf.data[p] # uninit

\* nodes() has returned for two groups of two elements each, of two and of
\* three nodes per element.
C13_Witness ==
    /\ launched.status = "returned"
    /\ launched.op = "nodes"
    /\ Len(discr.groups) = 2
    /\ nunit_nodes(discr.groups[1]) = 3
    /\ nunit_nodes(discr.groups[2]) = 2
    /\ \A g \in 1..2 : nelements(discr.groups[g]) = 2
    /\ Cardinality(accesses.writes) = 20

(***************************************************************************)
(* Properties of perform_flips.                                            *)
(***************************************************************************)
\* Whether the mask flags element e (from 1) of a group of the mesh.
flagged(g, e) == flip_flags[g.element_nr_base + e] # 0

\* An element's vertex indices with the first two exchanged.
exchanged(element_vertex_indices) ==
    [c \in 1..Len(element_vertex_indices) |->
        IF c = 1 THEN element_vertex_indices[2]
        ELSE IF c = 2 THEN element_vertex_indices[1]
        ELSE element_vertex_indices[c]]

\* C14: perform_flips flips element e of group g if and only if
\* flip_flags[element_nr_base + e] is set: every group is handed the slice
\* [element_nr_base, element_nr_base + nelements) of the mask, a group
\* without a flagged element is copied, with its vertex indices and nodes,
\* a flagged element has its first two vertices exchanged and its nodes
\* moved with them, the mesh returned has the input's vertices and as many
\* groups in the same order, and the input mesh is left as it was.
C14_PerformFlipsFollowsMask ==
    pflip_ret.status # "none" =>
        LET before == pflip_ret.called_with
            after == pflip_ret.mesh
        IN  /\ pflip_mesh = before
            /\ \A g \in 1..Len(pflip_ret.events) :
                  /\ pflip_ret.events[g].mask
                       = [e \in 1..Len(before.groups[g].vertex_indices) |->
                             flagged(before.groups[g], e)]
                  /\ pflip_ret.events[g].did = "flip"
                       <=> \E e \in 1..Len(before.groups[g].vertex_indices) :
                              flagged(before.groups[g], e)
            /\ pflip_ret.status = "ok" =>
                  /\ after.vertices = before.vertices
                  /\ Len(after.groups) = Len(before.groups)
                  /\ Len(pflip_ret.events) = Len(before.groups)
                  /\ \A g \in 1..Len(before.groups) :
                        LET bg == before.groups[g]
                            ag == after.groups[g]
                        IN  /\ ag.kind = bg.kind
                            /\ ag.order = bg.order
                            /\ ag.dim = bg.dim
                            /\ ag.unit_nodes = bg.unit_nodes
                            /\ ag.element_nr_base = bg.element_nr_base
                            /\ pflip_ret.events[g].did = "copy" => ag = bg
                            /\ Len(ag.vertex_indices) = Len(bg.vertex_indices)
                            /\ \A e \in 1..Len(bg.vertex_indices) :
                                  IF flagged(bg, e)
                                  THEN /\ ag.vertex_indices[e]
                                            = exchanged(bg.vertex_indices[e])
                                       /\ \A d \in 1..2 :
                                            ag.nodes[d][e]
                                              = [j \in 1..3 |->
                                                  before.vertices[d][
                                                    ag.vertex_indices[e][j] + 1]]
                                  ELSE /\ ag.vertex_indices[e] = bg.vertex_indices[e]
                                       /\ \A d \in 1..2 :
                                            ag.nodes[d][e] = bg.nodes[d][e]

\* A mesh of a first group without a flagged element and a second group of
\* two elements, the second of them flagged, came back flipped.
C14_Witness ==
    /\ pflip_ret.status = "ok"
    /\ Len(pflip_mesh.groups) = 2
    /\ Len(pflip_mesh.groups[1].vertex_indices) = 1
    /\ Len(pflip_mesh.groups[2].vertex_indices) = 2
    /\ flip_flags = <<0, 0, 1>>
    /\ ~skip_tests
    /\ pflip_ret.mesh.groups[1] = pflip_mesh.groups[1]
    /\ pflip_ret.mesh.groups[2].vertex_indices[1]
          = pflip_mesh.groups[2].vertex_indices[1]
    /\ pflip_ret.mesh.groups[2].vertex_indices[2]
          # pflip_mesh.groups[2].vertex_indices[2]

====
